---- MODULE Spec2Model ----
(***************************************************************************)
(* cplus.c: the thread primitive (createThread / joinThread) and the       *)
(* one-shot cancelable alarm (setAlarm / clearAlarm / alarmThreadStart),   *)
(* in its POSIX and its Windows backend.                                   *)
(*                                                                         *)
(* One caller thread issues the library calls; every alarm and every       *)
(* created thread has its own worker.  Each statement of the source that   *)
(* calls an OS primitive or touches shared memory is one action.           *)
(*                                                                         *)
(* Time is counted in ticks, TicksPerSec ticks to the second; a double     *)
(* holding seconds (xTime(), delay, fabstime) is represented by its number *)
(* of ticks.                                                               *)
(***************************************************************************)
EXTENDS Integers, FiniteSets, Sequences, TLC

\* ------------------------------------------------------------- bounds ---
NumAlarms   == 1      \* alarm handles the caller creates (one more in MultiSpec)
MaxDelay    == 1      \* largest delay passed to setAlarm, in ticks
MaxTime     == 1      \* the wall clock stops advancing here
TicksPerSec == 2      \* resolution of the modelled clock
NumThreads  == 2      \* threads the caller creates with createThread

\* ---------------------------------------------------- program constants --
NsPerSec    == 1000000000   \* fmod(fabstime, 1.0) * 1e9
MsPerSec    == 1000         \* ceil(alarm->delay * 1e3)
ClosureAlloc == 1           \* malloc(sizeof(closure)): the size of a pointer

Alarms  == 1..(NumAlarms + 1)   \* handle addresses
Threads == 1..NumThreads
Null    == 0                \* null: ((void*) 0)
Delays  == 0..MaxDelay
Data    == {"d1", "d2"}     \* opaque data pointers handed to callbacks

\* the caller hands every alarm a data pointer of its own
DataOf(a) == IF a % 2 = 1 THEN "d1" ELSE "d2"

VARIABLES
    backend,    \* "POSIX" or "WIN32": which #if branch of cplus.c is compiled
    handles,    \* how many alarms the caller creates in this run
    env,        \* "reliable": no OS primitive fails; "faulty": any may fail
    now,        \* wall clock, in ticks
    aborted,    \* abort() has been called: the process is gone
    diag,       \* the function named by xAbort's diagnostic
    failed,     \* the first OS primitive or allocation that failed
    pc,         \* the caller thread's position
    arg,        \* the handle the caller's current call works on
    alarm,      \* struct alarmHandle, per handle
    worker,     \* the alarm thread's position and locals, per handle
    hist,       \* per handle: what was asked and what has been observed
    closure,    \* struct threadClosure on the heap, per created thread
    thread,     \* the created thread's position and locals
    thist,      \* per created thread: what was asked and observed
    list,       \* a voidList: the fields v, len and maxLen
    heap,       \* the allocated block that holds the list's items
    frame       \* listEnsureMaxLen's arguments, locals and position

vars == <<backend, handles, env, now, aborted, diag, failed, pc, arg,
          alarm, worker, hist, closure, thread, thist, list, heap, frame>>

alarmVars  == <<alarm, worker, hist>>
threadVars == <<closure, thread, thist>>
procVars   == <<aborted, diag, failed>>
listVars   == <<list, heap, frame>>

\* ------------------------------------------------------------ helpers ---
\* C's integer conversion of a double: truncation toward zero
CTrunc(num, den) ==
    IF num >= 0 THEN num \div den ELSE -((-num) \div den)

\* fmod(x, 1.0) in ticks: the remainder carries the sign of x
CFmod(num, den) == num - den * CTrunc(num, den)

\* ceil(x) of a quotient
CeilDiv(num, den) == -((-num) \div den)

\* the wall time, in ticks since the epoch, at which the program starts: far
\* enough from the epoch for xTime() + delay to be positive
Epoch == TicksPerSec * MaxDelay

\* xTime(): gettimeofday's wall time, or -1.0 when it fails
xTime(ok) == IF ok THEN Epoch + now ELSE -TicksPerSec

\* setAlarm's conversion of fabstime (a double) to struct timespec
Timespec(fabstime) ==
    [tv_sec  |-> CTrunc(fabstime, TicksPerSec),
     tv_nsec |-> CFmod(fabstime, TicksPerSec) * (NsPerSec \div TicksPerSec)]

\* pthread_cond_timedwait rejects a timespec whose tv_nsec is out of range
ValidTimespec(ts) == ts.tv_nsec >= 0 /\ ts.tv_nsec < NsPerSec

\* faulty variant: the clock compared with the seconds of ts only
Reached_SecondsOnly(ts) == Timespec(Epoch + now).tv_sec >= ts.tv_sec

\* the clock has reached the absolute time ts
Reached(ts) ==
    LET c == Timespec(Epoch + now)
    IN  \/ c.tv_sec > ts.tv_sec
        \/ c.tv_sec = ts.tv_sec /\ c.tv_nsec >= ts.tv_nsec

\* alarmThreadStart (Windows): DWORD millis = ceil(alarm->delay * 1e3)
Millis(delay) == CeilDiv(delay * MsPerSec, TicksPerSec)

\* A DWORD (unsigned, 32 bits) is represented by the integer that has the
\* same 32 bits in two's complement: v below 2^31 by v, v from 2^31 on by
\* v - 2^32.
\* The conversion of a double to DWORD: a value in range converts to itself;
\* the conversion of a negative value is undefined in C, and builds differ:
\* the value wraps around (2^32 + x), or saturates at 0 or at 0xFFFFFFFF
ToDWORD(x) == IF x >= 0 THEN {x} ELSE {x, 0, -1}

\* a >= b for two DWORDs
DWordGE(a, b) == IF (a >= 0) <=> (b >= 0) THEN a >= b ELSE a < 0

\* milliseconds gone by since tick `since`
ElapsedMs(since) == ((now - since) * MsPerSec) \div TicksPerSec

\* ticks that must go by before `delay` seconds, rounded up to whole
\* milliseconds, have elapsed
WaitTicks(delay) == CeilDiv(Millis(delay) * TicksPerSec, MsPerSec)

\* results an OS primitive may return
OSResults == IF env = "faulty" THEN {"OK", "EFAIL"} ELSE {"OK"}
OSOk      == IF env = "faulty" THEN BOOLEAN ELSE {TRUE}

\* cAbort(r, function): abort through xAbort when r is not 0
cAbort(r) == r # "OK"

\* xAbort(r, function): print "*** System error: <function> failed", abort()
xAbort(function) ==
    /\ aborted' = TRUE
    /\ diag' = function
    /\ failed' = IF failed = "none" THEN function ELSE failed

\* an unchecked primitive failed: nothing is printed, the program goes on
Unchecked(ok, function) ==
    /\ failed' = IF ~ok /\ failed = "none" THEN function ELSE failed
    /\ UNCHANGED <<aborted, diag>>

Running == ~aborted

\* --------------------------------------------------------------- state ---
NoAlarm ==
    [mem |-> "unalloc", mutex |-> "uninit", cond |-> "uninit",
     abstime |-> [tv_sec |-> 0, tv_nsec |-> 0], abort |-> FALSE,
     function |-> "none", data |-> "none", thread |-> "none",
     delay |-> 0, event |-> "none"]

NoWorker == [pc |-> "none", r |-> "OK", signalled |-> FALSE, since |-> 0, millis |-> 0]

NoHist ==
    [asked |-> FALSE,      \* setAlarm has been called for this handle
     delay |-> 0, data |-> "none",
     due |-> 0,            \* time of the setAlarm call + delay
     deadline |-> 0,       \* time setAlarm read the clock + delay
     returned |-> FALSE,   \* setAlarm has returned the handle
     calls |-> 0,          \* invocations of the callback
     calledWith |-> "none",
     early |-> FALSE,      \* an invocation started before `due`
     running |-> FALSE,    \* the callback body is executing
     exit |-> "none",      \* how the worker left its wait: timeout / abort
     clr |-> "none",       \* clearAlarm called: before / at / after deadline
     flag |-> "none",      \* cancel requested: before / at / after deadline
     decided |-> "none",   \* the worker's decision: fire / skip
     decidedAtFlag |-> "none", \* that decision when the cancel was requested
     sigLate |-> FALSE,    \* event set after the wait's timeout was due
     cleared |-> FALSE,    \* clearAlarm has returned
     freedAlive |-> FALSE] \* a resource was released while the worker lived

NoClosure ==
    [mem |-> "unalloc",
     size |-> 0,           \* bytes allocated, in units of one pointer
     function |-> "none", data |-> "none"]

NoThread ==
    [pc |-> "none", handle |-> "none",
     function |-> "none", data |-> "none"]   \* threadStart's local closure

NoTHist ==
    [asked |-> FALSE,      \* createThread has been called
     data |-> "none",      \* the data passed to createThread
     returned |-> FALSE,   \* createThread has returned the handle
     calls |-> 0,          \* invocations of the callback
     calledWith |-> "none",
     running |-> FALSE,    \* the callback body is executing
     joining |-> FALSE,    \* joinThread has been called
     joined |-> FALSE]     \* joinThread has returned

\* emptyList: { null, 0, 0 }
emptyList == [v |-> Null, len |-> 0, maxLen |-> 0]

\* no block is allocated
NoHeap == [addr |-> Null, size |-> 0, items |-> <<>>]

\* listEnsureMaxLen is not being called
NoFrame ==
    [pc |-> "idle",        \* position in listEnsureMaxLen
     itemSize |-> 1,       \* sizeof of the list's item type
     minLen |-> 0,
     minSize |-> 0,
     newMax |-> 0,
     size |-> 0,           \* the int handed to realloc as its size
     err |-> "OK",
     old |-> emptyList,    \* the list as it was when the call was made
     kept |-> <<>>,        \* its items when the call was made
     overflow |-> FALSE]   \* an int computation has overflowed, in any call

\* a program that uses no list
NoList == list = emptyList /\ heap = NoHeap /\ frame = NoFrame

InitWith(e, k) ==
    /\ backend \in {"POSIX", "WIN32"}
    /\ handles = k
    /\ env = e
    /\ now = 0
    /\ aborted = FALSE
    /\ diag = "none"
    /\ failed = "none"
    /\ pc = "idle"
    /\ arg = Null
    /\ alarm = [a \in Alarms |-> NoAlarm]
    /\ worker = [a \in Alarms |-> NoWorker]
    /\ hist = [a \in Alarms |-> NoHist]
    /\ closure = [t \in Threads |-> NoClosure]
    /\ thread = [t \in Threads |-> NoThread]
    /\ thist = [t \in Threads |-> NoTHist]

Init == InitWith("reliable", NumAlarms) /\ NoList

\* where the clock stands relative to the deadline of alarm a
When(a) ==
    IF now < hist[a].deadline THEN "before"
    ELSE IF now = hist[a].deadline THEN "at" ELSE "after"

\* the worker thread of alarm a has terminated
Terminated(a) == worker[a].pc = "done"

\* ===================================================== caller: setAlarm ==
\* setAlarm(delay, function, data) is called; malloc hands out fresh handles
setAlarm_call(delay) ==
    /\ Running /\ pc = "idle"
    /\ now + WaitTicks(delay) <= MaxTime
    /\ \E a \in 1..handles :
        /\ ~hist[a].asked
        /\ \A b \in Alarms : b < a => hist[b].asked
        /\ arg' = a
        /\ hist' = [hist EXCEPT ![a].asked = TRUE, ![a].delay = delay,
                                ![a].data = DataOf(a), ![a].due = now + delay]
    /\ pc' = IF backend = "POSIX" THEN "sa_malloc" ELSE "saw_malloc"
    /\ UNCHANGED <<backend, handles, env, now, alarm, worker>>
    /\ UNCHANGED procVars /\ UNCHANGED <<threadVars, listVars>>

\* ---------------------------------------------------- POSIX: setAlarm ---
\* struct alarmHandle *alarm = malloc(sizeof(*alarm)); the memory is not
\* initialised, so the abort field holds whatever was there
setAlarm_malloc ==
    /\ Running /\ pc = "sa_malloc"
    /\ \E ok \in OSOk, garbage \in BOOLEAN :
        IF ~ok
        THEN /\ xAbort("malloc")
             /\ UNCHANGED <<pc, alarm>>
        ELSE /\ alarm' = [alarm EXCEPT ![arg].mem = "live", ![arg].abort = garbage]
             /\ pc' = "sa_mutex_init"
             /\ UNCHANGED procVars
    /\ UNCHANGED <<backend, handles, env, now, arg, worker, hist>>
    /\ UNCHANGED <<threadVars, listVars>>

setAlarm_mutex_init ==
    /\ Running /\ pc = "sa_mutex_init"
    /\ \E r \in OSResults :
        IF cAbort(r)
        THEN /\ xAbort("pthread_mutex_init")
             /\ UNCHANGED <<pc, alarm>>
        ELSE /\ alarm' = [alarm EXCEPT ![arg].mutex = "free"]
             /\ pc' = "sa_cond_init"
             /\ UNCHANGED procVars
    /\ UNCHANGED <<backend, handles, env, now, arg, worker, hist>>
    /\ UNCHANGED <<threadVars, listVars>>

setAlarm_cond_init ==
    /\ Running /\ pc = "sa_cond_init"
    /\ \E r \in OSResults :
        IF cAbort(r)
        THEN /\ xAbort("pthread_cond_init")
             /\ UNCHANGED <<pc, alarm>>
        ELSE /\ alarm' = [alarm EXCEPT ![arg].cond = "init"]
             /\ pc' = "sa_fields"
             /\ UNCHANGED procVars
    /\ UNCHANGED <<backend, handles, env, now, arg, worker, hist>>
    /\ UNCHANGED <<threadVars, listVars>>

\* faulty variant: alarm->abort is left as malloc returned it
setAlarm_fields_NoAbortInit ==
    /\ Running /\ pc = "sa_fields"
    /\ \E ok \in OSOk :
        /\ alarm' = [alarm EXCEPT
                        ![arg].abstime = Timespec(xTime(ok) + hist[arg].delay),
                        ![arg].function = "f",
                        ![arg].data = hist[arg].data]
        /\ UNCHANGED procVars
    /\ hist' = [hist EXCEPT ![arg].deadline = now + hist[arg].delay]
    /\ pc' = "sa_create"
    /\ UNCHANGED <<backend, handles, env, now, arg, worker>>
    /\ UNCHANGED <<threadVars, listVars>>

\* fabstime = xTime() + delay; abstime; abort = false; function; data
setAlarm_fields ==
    /\ Running /\ pc = "sa_fields"
    /\ \E ok \in OSOk :
        /\ alarm' = [alarm EXCEPT
                        ![arg].abstime = Timespec(xTime(ok) + hist[arg].delay),
                        ![arg].abort = FALSE,
                        ![arg].function = "f",
                        ![arg].data = hist[arg].data]
        /\ UNCHANGED procVars
    /\ hist' = [hist EXCEPT ![arg].deadline = now + hist[arg].delay]
    /\ pc' = "sa_create"
    /\ UNCHANGED <<backend, handles, env, now, arg, worker>>
    /\ UNCHANGED <<threadVars, listVars>>

\* pthread_create(&alarm->thread, null, alarmThreadStart, alarm); return alarm
setAlarm_create ==
    /\ Running /\ pc = "sa_create"
    /\ \E r \in OSResults :
        IF cAbort(r)
        THEN /\ xAbort("pthread_create")
             /\ UNCHANGED <<pc, arg, alarm, worker, hist>>
        ELSE /\ alarm' = [alarm EXCEPT ![arg].thread = "joinable"]
             /\ worker' = [worker EXCEPT ![arg].pc = "w_lock"]
             /\ hist' = [hist EXCEPT ![arg].returned = TRUE]
             /\ pc' = "idle" /\ arg' = Null
             /\ UNCHANGED procVars
    /\ UNCHANGED <<backend, handles, env, now>>
    /\ UNCHANGED <<threadVars, listVars>>

\* -------------------------------------------- POSIX: alarmThreadStart ---
\* r = pthread_mutex_lock(&alarm->mutex)
alarmThreadStart_lock(a) ==
    /\ Running /\ worker[a].pc = "w_lock"
    /\ \E r \in OSResults :
        IF cAbort(r)
        THEN /\ xAbort("pthread_mutex_lock")
             /\ UNCHANGED <<alarm, worker>>
        ELSE /\ alarm[a].mutex = "free"
             /\ alarm' = [alarm EXCEPT ![a].mutex = "worker"]
             /\ worker' = [worker EXCEPT ![a].pc = "w_while"]
             /\ UNCHANGED procVars
    /\ UNCHANGED <<backend, handles, env, now, pc, arg, hist>>
    /\ UNCHANGED <<threadVars, listVars>>

\* faulty variant: a cancelled worker returns at once, the mutex still locked
alarmThreadStart_while_ReturnLocked(a) ==
    /\ Running /\ worker[a].pc \in {"w_while", "w_again"}
    /\ IF alarm[a].abort
       THEN /\ worker' = [worker EXCEPT ![a].pc = "done"]
            /\ hist' = [hist EXCEPT ![a].exit = "abort", ![a].decided = "skip"]
            /\ UNCHANGED alarm
            /\ UNCHANGED procVars
       ELSE IF ~ValidTimespec(alarm[a].abstime)
       THEN /\ xAbort("pthread_cond_timedwait")
            /\ UNCHANGED <<alarmVars, listVars>>
       ELSE /\ worker' = [worker EXCEPT ![a].pc = "w_wait", ![a].signalled = FALSE]
            /\ alarm' = [alarm EXCEPT ![a].mutex = "free"]
            /\ UNCHANGED hist
            /\ UNCHANGED procVars
    /\ UNCHANGED <<backend, handles, env, now, pc, arg>>
    /\ UNCHANGED <<threadVars, listVars>>

\* while (!alarm->abort) pthread_cond_timedwait(...): the flag is read
\* under the mutex; entering the wait releases the mutex and blocks.  The
\* worker is at "w_while" when it comes from the lock and at "w_again" when
\* it comes back from a wait that returned 0
alarmThreadStart_while(a) ==
    /\ Running /\ worker[a].pc \in {"w_while", "w_again"}
    /\ IF alarm[a].abort
       THEN /\ worker' = [worker EXCEPT ![a].pc = "w_unlock"]
            /\ hist' = [hist EXCEPT ![a].exit = "abort"]
            /\ UNCHANGED alarm
            /\ UNCHANGED procVars
       ELSE IF ~ValidTimespec(alarm[a].abstime)
       THEN /\ xAbort("pthread_cond_timedwait")
            /\ UNCHANGED <<alarmVars, listVars>>
       ELSE /\ worker' = [worker EXCEPT ![a].pc = "w_wait", ![a].signalled = FALSE]
            /\ alarm' = [alarm EXCEPT ![a].mutex = "free"]
            /\ UNCHANGED hist
            /\ UNCHANGED procVars
    /\ UNCHANGED <<backend, handles, env, now, pc, arg>>
    /\ UNCHANGED <<threadVars, listVars>>

\* the wait returns ETIMEDOUT: abstime has passed; the mutex is re-acquired;
\* if (r == ETIMEDOUT) break
alarmThreadStart_timeout(a) ==
    /\ Running /\ worker[a].pc = "w_wait"
    /\ Reached(alarm[a].abstime)
    /\ alarm[a].mutex = "free"
    /\ alarm' = [alarm EXCEPT ![a].mutex = "worker"]
    /\ worker' = [worker EXCEPT ![a].pc = "w_unlock", ![a].r = "ETIMEDOUT",
                                ![a].signalled = FALSE]
    /\ hist' = [hist EXCEPT ![a].exit = IF alarm[a].abort THEN "abort" ELSE "timeout"]
    /\ UNCHANGED <<backend, handles, env, now, pc, arg>>
    /\ UNCHANGED procVars /\ UNCHANGED <<threadVars, listVars>>

\* the wait returns because the condition variable was signalled
alarmThreadStart_wake(a) ==
    /\ Running /\ worker[a].pc = "w_wait"
    /\ worker[a].signalled
    /\ alarm[a].mutex = "free"
    /\ alarm' = [alarm EXCEPT ![a].mutex = "worker"]
    /\ worker' = [worker EXCEPT ![a].pc = "w_again", ![a].r = "OK",
                                ![a].signalled = FALSE]
    /\ UNCHANGED <<backend, handles, env, now, pc, arg, hist>>
    /\ UNCHANGED procVars /\ UNCHANGED <<threadVars, listVars>>

\* faulty variant: an `if` in place of the `while`: any return of the wait
\* leaves the loop
alarmThreadStart_spurious_Exit(a) ==
    /\ Running /\ worker[a].pc = "w_wait"
    /\ alarm[a].mutex = "free"
    /\ \E r \in OSResults :
        IF cAbort(r)
        THEN /\ xAbort("pthread_cond_timedwait")
             /\ UNCHANGED <<alarm, worker>>
        ELSE /\ alarm' = [alarm EXCEPT ![a].mutex = "worker"]
             /\ worker' = [worker EXCEPT ![a].pc = "w_unlock", ![a].r = "OK",
                                         ![a].signalled = FALSE]
             /\ UNCHANGED procVars
    /\ UNCHANGED <<backend, handles, env, now, pc, arg, hist>>
    /\ UNCHANGED <<threadVars, listVars>>

\* the wait returns for no reason (a spurious wakeup), or with an error:
\* cAbort(r, "pthread_cond_timedwait")
alarmThreadStart_spurious(a) ==
    /\ Running /\ worker[a].pc = "w_wait"
    /\ alarm[a].mutex = "free"
    /\ \E r \in OSResults :
        IF cAbort(r)
        THEN /\ xAbort("pthread_cond_timedwait")
             /\ UNCHANGED <<alarm, worker>>
        ELSE /\ alarm' = [alarm EXCEPT ![a].mutex = "worker"]
             /\ worker' = [worker EXCEPT ![a].pc = "w_again", ![a].r = "OK",
                                         ![a].signalled = FALSE]
             /\ UNCHANGED procVars
    /\ UNCHANGED <<backend, handles, env, now, pc, arg, hist>>
    /\ UNCHANGED <<threadVars, listVars>>

\* faulty variant: the mutex is kept across the test and the callback
alarmThreadStart_unlock_Late(a) ==
    /\ Running /\ worker[a].pc = "w_unlock"
    /\ worker' = [worker EXCEPT ![a].pc = "w_if"]
    /\ UNCHANGED <<backend, handles, env, now, pc, arg, alarm, hist>>
    /\ UNCHANGED procVars /\ UNCHANGED <<threadVars, listVars>>

\* r = pthread_mutex_unlock(&alarm->mutex)
alarmThreadStart_unlock(a) ==
    /\ Running /\ worker[a].pc = "w_unlock"
    /\ \E r \in OSResults :
        IF cAbort(r)
        THEN /\ xAbort("pthread_mutex_unlock")
             /\ UNCHANGED <<alarm, worker>>
        ELSE /\ alarm' = [alarm EXCEPT ![a].mutex = "free"]
             /\ worker' = [worker EXCEPT ![a].pc = "w_if"]
             /\ UNCHANGED procVars
    /\ UNCHANGED <<backend, handles, env, now, pc, arg, hist>>
    /\ UNCHANGED <<threadVars, listVars>>

\* the callback is entered: alarm->function(alarm->data)
Invoke(a) ==
    /\ worker' = [worker EXCEPT ![a].pc = "w_callback"]
    /\ hist' = [hist EXCEPT ![a].calls = @ + 1,
                            ![a].calledWith = alarm[a].data,
                            ![a].early = @ \/ now < hist[a].due,
                            ![a].running = TRUE,
                            ![a].decided = "fire"]

\* the worker returns without invoking the callback
Skip(a) ==
    /\ worker' = [worker EXCEPT ![a].pc = "done"]
    /\ hist' = [hist EXCEPT ![a].decided = "skip"]

\* faulty variant: the callback is invoked without looking at the flag
alarmThreadStart_if_Unconditional(a) ==
    /\ Running /\ worker[a].pc = "w_if"
    /\ Invoke(a)
    /\ UNCHANGED <<backend, handles, env, now, pc, arg, alarm>>
    /\ UNCHANGED procVars /\ UNCHANGED <<threadVars, listVars>>

\* faulty variant: the test of the flag inverted: if (alarm->abort)
alarmThreadStart_if_Inverted(a) ==
    /\ Running /\ worker[a].pc = "w_if"
    /\ IF alarm[a].abort THEN Invoke(a) ELSE Skip(a)
    /\ UNCHANGED <<backend, handles, env, now, pc, arg, alarm>>
    /\ UNCHANGED procVars /\ UNCHANGED <<threadVars, listVars>>

\* if (!alarm->abort) alarm->function(alarm->data): the flag is read again,
\* this time without the mutex
alarmThreadStart_if(a) ==
    /\ Running /\ worker[a].pc = "w_if"
    /\ IF ~alarm[a].abort THEN Invoke(a) ELSE Skip(a)
    /\ UNCHANGED <<backend, handles, env, now, pc, arg, alarm>>
    /\ UNCHANGED procVars /\ UNCHANGED <<threadVars, listVars>>

\* faulty variant: after the callback the worker goes back to the test
alarmThreadStart_return_Again(a) ==
    /\ Running /\ worker[a].pc = "w_callback"
    /\ worker' = [worker EXCEPT
                    ![a].pc = IF backend = "POSIX" THEN "w_if" ELSE "ww_if"]
    /\ hist' = [hist EXCEPT ![a].running = FALSE]
    /\ UNCHANGED <<backend, handles, env, now, pc, arg, alarm>>
    /\ UNCHANGED procVars /\ UNCHANGED <<threadVars, listVars>>

\* the callback returns; return null: the thread terminates
alarmThreadStart_return(a) ==
    /\ Running /\ worker[a].pc = "w_callback"
    /\ worker' = [worker EXCEPT ![a].pc = "done"]
    /\ hist' = [hist EXCEPT ![a].running = FALSE]
    /\ UNCHANGED <<backend, handles, env, now, pc, arg, alarm>>
    /\ UNCHANGED procVars /\ UNCHANGED <<threadVars, listVars>>

\* =================================================== caller: clearAlarm ==
\* clearAlarm(alarm) is called, with null or with a handle that setAlarm
\* returned and that has not been cleared before
clearAlarm_call(h) ==
    /\ Running /\ pc = "idle"
    /\ h # Null => hist[h].returned /\ hist[h].clr = "none"
    /\ pc' = "ca_null"
    /\ arg' = h
    /\ hist' = IF h = Null THEN hist ELSE [hist EXCEPT ![h].clr = When(h)]
    /\ UNCHANGED <<backend, handles, env, now, alarm, worker>>
    /\ UNCHANGED procVars /\ UNCHANGED <<threadVars, listVars>>

\* faulty variant: no test for null: the handle is used whatever it is
clearAlarm_null_Unchecked ==
    /\ Running /\ pc = "ca_null"
    /\ pc' = IF backend = "POSIX" THEN "ca_lock" ELSE "caw_SetEvent"
    /\ UNCHANGED <<backend, handles, env, now, arg>>
    /\ UNCHANGED <<alarmVars, listVars>> /\ UNCHANGED procVars /\ UNCHANGED <<threadVars, listVars>>

\* if (alarm == null) return;          (Windows: if (alarm) { ... })
clearAlarm_null ==
    /\ Running /\ pc = "ca_null"
    /\ pc' = IF arg = Null THEN "idle"
             ELSE IF backend = "POSIX" THEN "ca_lock" ELSE "caw_SetEvent"
    /\ UNCHANGED <<backend, handles, env, now, arg>>
    /\ UNCHANGED <<alarmVars, listVars>> /\ UNCHANGED procVars /\ UNCHANGED <<threadVars, listVars>>

\* faulty variant: a join that does not wait for the thread
JoinDone_NoWait(a) == TRUE

\* pthread_join / WaitForSingleObject(thread, INFINITE) return once the
\* thread has terminated
JoinDone(a) == Terminated(a)

\* a resource of the handle is released: was its worker still alive?
Release(a) ==
    [hist EXCEPT ![a].freedAlive =
        @ \/ (worker[a].pc # "none" /\ ~Terminated(a))]

\* -------------------------------------------------- POSIX: clearAlarm ---
clearAlarm_lock ==
    /\ Running /\ pc = "ca_lock"
    /\ \E r \in OSResults :
        IF cAbort(r)
        THEN /\ xAbort("pthread_mutex_lock")
             /\ UNCHANGED <<pc, alarm>>
        ELSE /\ alarm[arg].mutex = "free"
             /\ alarm' = [alarm EXCEPT ![arg].mutex = "caller"]
             /\ pc' = "ca_abort"
             /\ UNCHANGED procVars
    /\ UNCHANGED <<backend, handles, env, now, arg, worker, hist>>
    /\ UNCHANGED <<threadVars, listVars>>

\* the cancel request is recorded against the clock and the callback
Requested(a) ==
    [hist EXCEPT ![a].flag = When(a),
                 ![a].decidedAtFlag = hist[a].decided]

\* faulty variant: one cancel flag shared by all alarms
clearAlarm_abort_Shared ==
    /\ Running /\ pc = "ca_abort"
    /\ alarm' = [a \in Alarms |-> [alarm[a] EXCEPT !.abort = TRUE]]
    /\ hist' = Requested(arg)
    /\ pc' = "ca_signal"
    /\ UNCHANGED <<backend, handles, env, now, arg, worker>>
    /\ UNCHANGED procVars /\ UNCHANGED <<threadVars, listVars>>

\* alarm->abort = true
clearAlarm_abort ==
    /\ Running /\ pc = "ca_abort"
    /\ alarm' = [alarm EXCEPT ![arg].abort = TRUE]
    /\ hist' = Requested(arg)
    /\ pc' = "ca_signal"
    /\ UNCHANGED <<backend, handles, env, now, arg, worker>>
    /\ UNCHANGED procVars /\ UNCHANGED <<threadVars, listVars>>

\* faulty variant: the flag is set but the condition variable is not signalled
clearAlarm_signal_Omitted ==
    /\ Running /\ pc = "ca_signal"
    /\ pc' = "ca_unlock"
    /\ UNCHANGED <<backend, handles, env, now, arg>>
    /\ UNCHANGED <<alarmVars, listVars>> /\ UNCHANGED procVars /\ UNCHANGED <<threadVars, listVars>>

\* r = pthread_cond_signal(&alarm->cond): wakes the worker if it is waiting
clearAlarm_signal ==
    /\ Running /\ pc = "ca_signal"
    /\ \E r \in OSResults :
        IF cAbort(r)
        THEN /\ xAbort("pthread_cond_signal")
             /\ UNCHANGED <<pc, worker>>
        ELSE /\ worker' = [worker EXCEPT ![arg].signalled =
                              @ \/ worker[arg].pc = "w_wait"]
             /\ pc' = "ca_unlock"
             /\ UNCHANGED procVars
    /\ UNCHANGED <<backend, handles, env, now, arg, alarm, hist>>
    /\ UNCHANGED <<threadVars, listVars>>

\* faulty variant: the resources are destroyed right after the unlock, unjoined
clearAlarm_unlock_ThenDestroy ==
    /\ Running /\ pc = "ca_unlock"
    /\ alarm' = [alarm EXCEPT ![arg].mutex = "free"]
    /\ pc' = "ca_mutex_destroy"
    /\ UNCHANGED <<backend, handles, env, now, arg, worker, hist>>
    /\ UNCHANGED procVars /\ UNCHANGED <<threadVars, listVars>>

\* r = pthread_mutex_unlock(&alarm->mutex)
clearAlarm_unlock ==
    /\ Running /\ pc = "ca_unlock"
    /\ \E r \in OSResults :
        IF cAbort(r)
        THEN /\ xAbort("pthread_mutex_unlock")
             /\ UNCHANGED <<pc, alarm>>
        ELSE /\ alarm' = [alarm EXCEPT ![arg].mutex = "free"]
             /\ pc' = "ca_join"
             /\ UNCHANGED procVars
    /\ UNCHANGED <<backend, handles, env, now, arg, worker, hist>>
    /\ UNCHANGED <<threadVars, listVars>>

\* r = pthread_join(alarm->thread, null)
clearAlarm_join ==
    /\ Running /\ pc = "ca_join"
    /\ \E r \in OSResults :
        IF cAbort(r)
        THEN /\ xAbort("pthread_join")
             /\ UNCHANGED <<pc, alarm>>
        ELSE /\ JoinDone(arg)
             /\ alarm' = [alarm EXCEPT ![arg].thread = "joined"]
             /\ pc' = "ca_mutex_destroy"
             /\ UNCHANGED procVars
    /\ UNCHANGED <<backend, handles, env, now, arg, worker, hist>>
    /\ UNCHANGED <<threadVars, listVars>>

clearAlarm_mutex_destroy ==
    /\ Running /\ pc = "ca_mutex_destroy"
    /\ \E r \in OSResults :
        IF cAbort(r)
        THEN /\ xAbort("pthread_mutex_destroy")
             /\ UNCHANGED <<pc, alarm, hist>>
        ELSE /\ alarm' = [alarm EXCEPT ![arg].mutex = "destroyed"]
             /\ hist' = Release(arg)
             /\ pc' = "ca_cond_destroy"
             /\ UNCHANGED procVars
    /\ UNCHANGED <<backend, handles, env, now, arg, worker>>
    /\ UNCHANGED <<threadVars, listVars>>

clearAlarm_cond_destroy ==
    /\ Running /\ pc = "ca_cond_destroy"
    /\ \E r \in OSResults :
        IF cAbort(r)
        THEN /\ xAbort("pthread_cond_destroy")
             /\ UNCHANGED <<pc, alarm, hist>>
        ELSE /\ alarm' = [alarm EXCEPT ![arg].cond = "destroyed"]
             /\ hist' = Release(arg)
             /\ pc' = "ca_free"
             /\ UNCHANGED procVars
    /\ UNCHANGED <<backend, handles, env, now, arg, worker>>
    /\ UNCHANGED <<threadVars, listVars>>

\* free(alarm); clearAlarm returns
clearAlarm_free ==
    /\ Running /\ pc \in {"ca_free", "caw_free"}
    /\ alarm' = [alarm EXCEPT ![arg].mem = "freed"]
    /\ hist' = [Release(arg) EXCEPT ![arg].cleared = TRUE]
    /\ pc' = "idle" /\ arg' = Null
    /\ UNCHANGED <<backend, handles, env, now, worker>>
    /\ UNCHANGED procVars /\ UNCHANGED <<threadVars, listVars>>

\* -------------------------------------------------- Windows: setAlarm ---
setAlarmW_malloc ==
    /\ Running /\ pc = "saw_malloc"
    /\ \E ok \in OSOk :
        IF ~ok
        THEN /\ xAbort("malloc")
             /\ UNCHANGED <<pc, alarm>>
        ELSE /\ alarm' = [alarm EXCEPT ![arg].mem = "live"]
             /\ pc' = "saw_fields"
             /\ UNCHANGED procVars
    /\ UNCHANGED <<backend, handles, env, now, arg, worker, hist>>
    /\ UNCHANGED <<threadVars, listVars>>

\* alarm->delay = delay; alarm->function = function; alarm->data = data
setAlarmW_fields ==
    /\ Running /\ pc = "saw_fields"
    /\ alarm' = [alarm EXCEPT ![arg].delay = hist[arg].delay,
                              ![arg].function = "f",
                              ![arg].data = hist[arg].data]
    /\ hist' = [hist EXCEPT ![arg].deadline = now + hist[arg].delay]
    /\ pc' = "saw_CreateEvent"
    /\ UNCHANGED <<backend, handles, env, now, arg, worker>>
    /\ UNCHANGED procVars /\ UNCHANGED <<threadVars, listVars>>

\* alarm->event = CreateEvent(null, true, false, null): manual reset, not
\* signalled; the result is not checked
setAlarmW_CreateEvent ==
    /\ Running /\ pc = "saw_CreateEvent"
    /\ \E ok \in OSOk :
        /\ alarm' = [alarm EXCEPT ![arg].event = IF ok THEN "unset" ELSE "null"]
        /\ Unchecked(ok, "CreateEvent")
    /\ pc' = "saw_beginthreadex"
    /\ UNCHANGED <<backend, handles, env, now, arg, worker, hist>>
    /\ UNCHANGED <<threadVars, listVars>>

\* alarm->thread = _beginthreadex(..., alarmThreadStart, alarm, ...);
\* return alarm; the result is not checked
setAlarmW_beginthreadex ==
    /\ Running /\ pc = "saw_beginthreadex"
    /\ \E ok \in OSOk :
        /\ alarm' = [alarm EXCEPT ![arg].thread = IF ok THEN "joinable" ELSE "null"]
        /\ worker' = IF ok THEN [worker EXCEPT ![arg].pc = "ww_start"] ELSE worker
        /\ Unchecked(ok, "_beginthreadex")
    /\ hist' = [hist EXCEPT ![arg].returned = TRUE]
    /\ pc' = "idle" /\ arg' = Null
    /\ UNCHANGED <<backend, handles, env, now>>
    /\ UNCHANGED <<threadVars, listVars>>

\* ------------------------------------------ Windows: alarmThreadStart ---
\* millis = ceil(alarm->delay * 1e3); WaitForSingleObject(alarm->event, millis)
\* is entered; on an invalid handle it returns WAIT_FAILED at once
alarmThreadStartW_wait(a) ==
    /\ Running /\ worker[a].pc = "ww_start"
    /\ \E millis \in ToDWORD(Millis(alarm[a].delay)) :
       worker' = [worker EXCEPT
                    ![a].millis = millis,
                    ![a].since = now,
                    ![a].r = IF alarm[a].event = "null" THEN "WAIT_FAILED" ELSE @,
                    ![a].pc = IF alarm[a].event = "null" THEN "ww_if" ELSE "ww_wait"]
    /\ Unchecked(alarm[a].event # "null", "WaitForSingleObject")
    /\ UNCHANGED <<backend, handles, env, now, pc, arg, alarm, hist>>
    /\ UNCHANGED <<threadVars, listVars>>

\* the wait ends because the event is signalled
alarmThreadStartW_signaled(a) ==
    /\ Running /\ worker[a].pc = "ww_wait"
    /\ alarm[a].event = "set"
    /\ worker' = [worker EXCEPT ![a].r = "WAIT_OBJECT_0", ![a].pc = "ww_if"]
    /\ hist' = [hist EXCEPT ![a].exit = "abort"]
    /\ UNCHANGED <<backend, handles, env, now, pc, arg, alarm>>
    /\ UNCHANGED procVars /\ UNCHANGED <<threadVars, listVars>>

\* the wait ends because millis have gone by with the event not signalled
\* (or signalled only after the time-out was due)
alarmThreadStartW_timeout(a) ==
    /\ Running /\ worker[a].pc = "ww_wait"
    /\ DWordGE(ElapsedMs(worker[a].since), worker[a].millis)
    /\ alarm[a].event # "set" \/ hist[a].sigLate
    /\ worker' = [worker EXCEPT ![a].r = "WAIT_TIMEOUT", ![a].pc = "ww_if"]
    /\ hist' = [hist EXCEPT ![a].exit = "timeout"]
    /\ UNCHANGED <<backend, handles, env, now, pc, arg, alarm>>
    /\ UNCHANGED procVars /\ UNCHANGED <<threadVars, listVars>>

\* faulty variant: the callback is invoked whatever ended the wait
alarmThreadStartW_if_Always(a) ==
    /\ Running /\ worker[a].pc = "ww_if"
    /\ Invoke(a)
    /\ UNCHANGED <<backend, handles, env, now, pc, arg, alarm>>
    /\ UNCHANGED procVars /\ UNCHANGED <<threadVars, listVars>>

\* if (r == WAIT_TIMEOUT) alarm->function(alarm->data)
alarmThreadStartW_if(a) ==
    /\ Running /\ worker[a].pc = "ww_if"
    /\ IF worker[a].r = "WAIT_TIMEOUT" THEN Invoke(a) ELSE Skip(a)
    /\ UNCHANGED <<backend, handles, env, now, pc, arg, alarm>>
    /\ UNCHANGED procVars /\ UNCHANGED <<threadVars, listVars>>

\* ------------------------------------------------ Windows: clearAlarm ---
\* SetEvent(alarm->event); the result is not checked
clearAlarmW_SetEvent ==
    /\ Running /\ pc = "caw_SetEvent"
    /\ IF alarm[arg].event = "null"
       THEN /\ Unchecked(FALSE, "SetEvent")
            /\ UNCHANGED <<alarm, hist>>
       ELSE /\ alarm' = [alarm EXCEPT ![arg].event = "set"]
            /\ hist' = [Requested(arg) EXCEPT ![arg].sigLate =
                          /\ worker[arg].pc = "ww_wait"
                          /\ DWordGE(ElapsedMs(worker[arg].since), worker[arg].millis)]
            /\ UNCHANGED procVars
    /\ pc' = "caw_join"
    /\ UNCHANGED <<backend, handles, env, now, arg, worker>>
    /\ UNCHANGED <<threadVars, listVars>>

\* WaitForSingleObject(alarm->thread, INFINITE); the result is not checked
clearAlarmW_join ==
    /\ Running /\ pc = "caw_join"
    /\ IF alarm[arg].thread = "null"
       THEN Unchecked(FALSE, "WaitForSingleObject")
       ELSE JoinDone(arg) /\ UNCHANGED procVars
    /\ pc' = "caw_CloseThread"
    /\ UNCHANGED <<backend, handles, env, now, arg>>
    /\ UNCHANGED <<alarmVars, listVars>> /\ UNCHANGED <<threadVars, listVars>>

\* CloseHandle(alarm->thread)
clearAlarmW_CloseThread ==
    /\ Running /\ pc = "caw_CloseThread"
    /\ IF alarm[arg].thread = "null"
       THEN /\ Unchecked(FALSE, "CloseHandle")
            /\ UNCHANGED alarm
       ELSE /\ alarm' = [alarm EXCEPT ![arg].thread = "closed"]
            /\ UNCHANGED procVars
    /\ hist' = Release(arg)
    /\ pc' = "caw_CloseEvent"
    /\ UNCHANGED <<backend, handles, env, now, arg, worker>>
    /\ UNCHANGED <<threadVars, listVars>>

\* CloseHandle(alarm->event)
clearAlarmW_CloseEvent ==
    /\ Running /\ pc = "caw_CloseEvent"
    /\ IF alarm[arg].event = "null"
       THEN /\ Unchecked(FALSE, "CloseHandle")
            /\ UNCHANGED alarm
       ELSE /\ alarm' = [alarm EXCEPT ![arg].event = "closed"]
            /\ UNCHANGED procVars
    /\ hist' = Release(arg)
    /\ pc' = "caw_free"
    /\ UNCHANGED <<backend, handles, env, now, arg, worker>>
    /\ UNCHANGED <<threadVars, listVars>>

\* ============================================================== clock ==
\* the wait of alarm a has no fixed end yet: setAlarm has not read the
\* clock, or the Windows worker has not entered its wait
Unanchored(a) ==
    \/ arg = a /\ pc \in {"sa_malloc", "sa_mutex_init", "sa_cond_init", "sa_fields",
                          "saw_malloc", "saw_fields", "saw_CreateEvent",
                          "saw_beginthreadex"}
    \/ worker[a].pc = "ww_start"

\* the wall clock advances; it stops at MaxTime, and it waits for a wait
\* that could not end by MaxTime if it were entered later
Tick ==
    /\ Running
    /\ now < MaxTime
    /\ \A a \in Alarms : Unanchored(a) => now + 1 + WaitTicks(hist[a].delay) <= MaxTime
    /\ now' = now + 1
    /\ UNCHANGED <<backend, handles, env, pc, arg>>
    /\ UNCHANGED <<alarmVars, listVars>> /\ UNCHANGED procVars /\ UNCHANGED <<threadVars, listVars>>

\* ====================================================== specifications ==
Worker(a) ==
    \/ alarmThreadStart_lock(a)
    \/ alarmThreadStart_while(a)
    \/ alarmThreadStart_timeout(a)
    \/ alarmThreadStart_wake(a)
    \/ alarmThreadStart_unlock(a)
    \/ alarmThreadStart_if(a)
    \/ alarmThreadStart_return(a)
    \/ alarmThreadStartW_wait(a)
    \/ alarmThreadStartW_signaled(a)
    \/ alarmThreadStartW_timeout(a)
    \/ alarmThreadStartW_if(a)

Caller ==
    \/ \E d \in Delays : setAlarm_call(d)
    \/ setAlarm_malloc
    \/ setAlarm_mutex_init
    \/ setAlarm_cond_init
    \/ setAlarm_fields
    \/ setAlarm_create
    \/ \E h \in Alarms \cup {Null} : clearAlarm_call(h)
    \/ clearAlarm_null
    \/ clearAlarm_lock
    \/ clearAlarm_abort
    \/ clearAlarm_signal
    \/ clearAlarm_unlock
    \/ clearAlarm_join
    \/ clearAlarm_mutex_destroy
    \/ clearAlarm_cond_destroy
    \/ clearAlarm_free
    \/ setAlarmW_malloc
    \/ setAlarmW_fields
    \/ setAlarmW_CreateEvent
    \/ setAlarmW_beginthreadex
    \/ clearAlarmW_SetEvent
    \/ clearAlarmW_join
    \/ clearAlarmW_CloseThread
    \/ clearAlarmW_CloseEvent

Next ==
    \/ Caller
    \/ \E a \in Alarms : Worker(a)
    \/ \E a \in Alarms : alarmThreadStart_spurious(a)
    \/ Tick

Spec == Init /\ [][Next]_vars

\* setAlarm never blocks: once called it runs to its return
SetAlarmSteps ==
    \/ setAlarm_malloc \/ setAlarm_mutex_init \/ setAlarm_cond_init
    \/ setAlarm_fields \/ setAlarm_create
    \/ setAlarmW_malloc \/ setAlarmW_fields \/ setAlarmW_CreateEvent
    \/ setAlarmW_beginthreadex

\* scheduling: the clock advances, every worker thread gets to run, a
\* callback returns, a call of setAlarm returns, and a timed wait whose time
\* has come ends by time-out even though spurious wakeups may keep
\* interrupting it
Fairness ==
    /\ WF_vars(Tick)
    /\ WF_vars(SetAlarmSteps)
    /\ \A a \in Alarms : WF_vars(Worker(a))
    /\ \A a \in Alarms : SF_vars(alarmThreadStart_timeout(a))

FairSpec == Spec /\ Fairness

\* the steps of clearAlarm after the call
ClearAlarmSteps ==
    \/ clearAlarm_null \/ clearAlarm_lock \/ clearAlarm_abort
    \/ clearAlarm_signal \/ clearAlarm_unlock \/ clearAlarm_join
    \/ clearAlarm_mutex_destroy \/ clearAlarm_cond_destroy \/ clearAlarm_free
    \/ clearAlarmW_SetEvent \/ clearAlarmW_join
    \/ clearAlarmW_CloseThread \/ clearAlarmW_CloseEvent

\* scheduling without any promise about the clock: the caller gets to run
\* inside setAlarm and clearAlarm and every worker thread gets to run, but
\* time need not advance, so a deadline need never be reached; a caller
\* waiting for a mutex that is free again and again gets it
CancelFairness ==
    /\ WF_vars(SetAlarmSteps)
    /\ WF_vars(ClearAlarmSteps)
    /\ SF_vars(clearAlarm_lock)
    /\ \A a \in Alarms : WF_vars(Worker(a))

CancelFairSpec == Spec /\ CancelFairness

\* the same program when the caller also passes negative delays
NegDelays == (-MaxDelay)..(-1)
NegNext == Next \/ \E d \in NegDelays : setAlarm_call(d)
NegSpec == Init /\ [][NegNext]_vars

\* the same program creating one alarm more
MultiInit == InitWith("reliable", NumAlarms + 1) /\ NoList
MultiSpec == MultiInit /\ [][Next]_vars
MultiFairSpec == MultiSpec /\ Fairness

\* the same program on an operating system whose primitives may fail
FaultInit == InitWith("faulty", NumAlarms) /\ NoList
FaultSpec == FaultInit /\ [][Next]_vars

\* ================================================ the thread primitive ==
\* createThread(function, data) is called
createThread_call(data) ==
    /\ Running /\ pc = "idle"
    /\ \E t \in Threads :
        /\ ~thist[t].asked
        /\ \A u \in Threads : u < t => thist[u].asked
        /\ arg' = t
        /\ thist' = [thist EXCEPT ![t].asked = TRUE, ![t].data = data]
    /\ pc' = "ct_malloc"
    /\ UNCHANGED <<backend, handles, env, now, closure, thread>>
    /\ UNCHANGED procVars /\ UNCHANGED <<alarmVars, listVars>>

\* struct threadClosure *closure = malloc(sizeof(closure));
\* if (!closure) xAbort(errno, "malloc")
createThread_malloc ==
    /\ Running /\ pc = "ct_malloc"
    /\ \E ok \in OSOk :
        IF ~ok
        THEN /\ xAbort("malloc")
             /\ UNCHANGED <<pc, closure>>
        ELSE /\ closure' = [closure EXCEPT ![arg].mem = "live",
                                           ![arg].size = ClosureAlloc]
             /\ pc' = "ct_fields"
             /\ UNCHANGED procVars
    /\ UNCHANGED <<backend, handles, env, now, arg, thread, thist>>
    /\ UNCHANGED <<alarmVars, listVars>>

\* the field at pointer offset `offset` lies within the allocated block
InBlock(c, offset) == offset + 1 <= c.size

\* what a read of the data field may yield: the value stored, or, for a
\* field lying outside the allocated block, whatever the heap holds there
DataField(c) == IF InBlock(c, 1) THEN {c.data} ELSE Data

\* closure->function = function; closure->data = data
createThread_fields ==
    /\ Running /\ pc = "ct_fields"
    /\ closure' = [closure EXCEPT ![arg].function = "f",
                                  ![arg].data = thist[arg].data]
    /\ pc' = IF backend = "POSIX" THEN "ct_create" ELSE "ctw_beginthreadex"
    /\ UNCHANGED <<backend, handles, env, now, arg, thread, thist>>
    /\ UNCHANGED procVars /\ UNCHANGED <<alarmVars, listVars>>

\* POSIX: r = pthread_create(&threadHandle, null, threadStart, closure);
\* cAbort(r, "pthread_create"); return threadHandle
createThread_create ==
    /\ Running /\ pc = "ct_create"
    /\ \E r \in OSResults :
        IF cAbort(r)
        THEN /\ xAbort("pthread_create")
             /\ UNCHANGED <<pc, arg, thread, thist>>
        ELSE /\ thread' = [thread EXCEPT ![arg].pc = "ts_copy",
                                         ![arg].handle = "joinable"]
             /\ thist' = [thist EXCEPT ![arg].returned = TRUE]
             /\ pc' = "idle" /\ arg' = Null
             /\ UNCHANGED procVars
    /\ UNCHANGED <<backend, handles, env, now, closure>>
    /\ UNCHANGED <<alarmVars, listVars>>

\* Windows: threadHandle = _beginthreadex(null, 0, threadStart, closure, 0,
\* null); return threadHandle; the result is not checked
createThreadW_beginthreadex ==
    /\ Running /\ pc = "ctw_beginthreadex"
    /\ \E ok \in OSOk :
        /\ thread' = [thread EXCEPT
                        ![arg].pc = IF ok THEN "ts_copy" ELSE "none",
                        ![arg].handle = IF ok THEN "joinable" ELSE "null"]
        /\ Unchecked(ok, "_beginthreadex")
    /\ thist' = [thist EXCEPT ![arg].returned = TRUE]
    /\ pc' = "idle" /\ arg' = Null
    /\ UNCHANGED <<backend, handles, env, now, closure>>
    /\ UNCHANGED <<alarmVars, listVars>>

\* struct threadClosure closure = *(struct threadClosure*)args
threadStart_copy(t) ==
    /\ Running /\ thread[t].pc = "ts_copy"
    /\ \E d \in DataField(closure[t]) :
        thread' = [thread EXCEPT ![t].pc = "ts_free",
                                 ![t].function = closure[t].function,
                                 ![t].data = d]
    /\ UNCHANGED <<backend, handles, env, now, pc, arg, closure, thist>>
    /\ UNCHANGED procVars /\ UNCHANGED <<alarmVars, listVars>>

\* free(args)
threadStart_free(t) ==
    /\ Running /\ thread[t].pc = "ts_free"
    /\ closure' = [closure EXCEPT ![t].mem = "freed"]
    /\ thread' = [thread EXCEPT ![t].pc = "ts_call"]
    /\ UNCHANGED <<backend, handles, env, now, pc, arg, thist>>
    /\ UNCHANGED procVars /\ UNCHANGED <<alarmVars, listVars>>

\* closure.function(closure.data) is entered
threadStart_call(t) ==
    /\ Running /\ thread[t].pc = "ts_call"
    /\ thread' = [thread EXCEPT ![t].pc = "ts_callback"]
    /\ thist' = [thist EXCEPT ![t].calls = @ + 1,
                              ![t].calledWith = thread[t].data,
                              ![t].running = TRUE]
    /\ UNCHANGED <<backend, handles, env, now, pc, arg, closure>>
    /\ UNCHANGED procVars /\ UNCHANGED <<alarmVars, listVars>>

\* the callback returns; return null: the thread terminates
threadStart_return(t) ==
    /\ Running /\ thread[t].pc = "ts_callback"
    /\ thread' = [thread EXCEPT ![t].pc = "done"]
    /\ thist' = [thist EXCEPT ![t].running = FALSE]
    /\ UNCHANGED <<backend, handles, env, now, pc, arg, closure>>
    /\ UNCHANGED procVars /\ UNCHANGED <<alarmVars, listVars>>

\* joinThread(thread) is called, once, on a handle createThread returned
joinThread_call(t) ==
    /\ Running /\ pc = "idle"
    /\ thist[t].returned /\ ~thist[t].joining
    /\ thist' = [thist EXCEPT ![t].joining = TRUE]
    /\ pc' = IF backend = "POSIX" THEN "jt_join" ELSE "jtw_wait"
    /\ arg' = t
    /\ UNCHANGED <<backend, handles, env, now, closure, thread>>
    /\ UNCHANGED procVars /\ UNCHANGED <<alarmVars, listVars>>

\* the operating system's join returns once the thread has terminated
ThreadDone(t) == thread[t].pc = "done"

\* POSIX: r = pthread_join(threadHandle, null); cAbort(r, "pthread_join")
joinThread_join ==
    /\ Running /\ pc = "jt_join"
    /\ \E r \in OSResults :
        IF cAbort(r)
        THEN /\ xAbort("pthread_join")
             /\ UNCHANGED <<pc, arg, thread, thist>>
        ELSE /\ ThreadDone(arg)
             /\ thread' = [thread EXCEPT ![arg].handle = "joined"]
             /\ thist' = [thist EXCEPT ![arg].joined = TRUE]
             /\ pc' = "idle" /\ arg' = Null
             /\ UNCHANGED procVars
    /\ UNCHANGED <<backend, handles, env, now, closure>>
    /\ UNCHANGED <<alarmVars, listVars>>

\* Windows: WaitForSingleObject(threadHandle, INFINITE); not checked
joinThreadW_wait ==
    /\ Running /\ pc = "jtw_wait"
    /\ IF thread[arg].handle = "null"
       THEN Unchecked(FALSE, "WaitForSingleObject")
       ELSE ThreadDone(arg) /\ UNCHANGED procVars
    /\ pc' = "jtw_close"
    /\ UNCHANGED <<backend, handles, env, now, arg>>
    /\ UNCHANGED <<threadVars, listVars>> /\ UNCHANGED <<alarmVars, listVars>>

\* Windows: CloseHandle(threadHandle); joinThread returns
joinThreadW_close ==
    /\ Running /\ pc = "jtw_close"
    /\ IF thread[arg].handle = "null"
       THEN /\ Unchecked(FALSE, "CloseHandle")
            /\ UNCHANGED thread
       ELSE /\ thread' = [thread EXCEPT ![arg].handle = "closed"]
            /\ UNCHANGED procVars
    /\ thist' = [thist EXCEPT ![arg].joined = TRUE]
    /\ pc' = "idle" /\ arg' = Null
    /\ UNCHANGED <<backend, handles, env, now, closure>>
    /\ UNCHANGED <<alarmVars, listVars>>

ThreadNext ==
    \/ \E d \in Data : createThread_call(d)
    \/ createThread_malloc
    \/ createThread_fields
    \/ createThread_create
    \/ createThreadW_beginthreadex
    \/ \E t \in Threads : threadStart_copy(t)
    \/ \E t \in Threads : threadStart_free(t)
    \/ \E t \in Threads : threadStart_call(t)
    \/ \E t \in Threads : threadStart_return(t)
    \/ \E t \in Threads : joinThread_call(t)
    \/ joinThread_join
    \/ joinThreadW_wait
    \/ joinThreadW_close

\* the program using the thread primitive only
ThreadSpec == Init /\ [][ThreadNext]_vars

\* the same on an operating system whose primitives may fail
ThreadFaultSpec == FaultInit /\ [][ThreadNext]_vars

\* ============================================================== claims ==

\* C1: for every delay >= 0, an alarm that is never cleared invokes f(d)
\* exactly once, eventually (the worker and the clock being scheduled
\* fairly), with the data passed, and not before the time of the setAlarm
\* call plus delay.  (The caller of FairSpec creates the handles
\* 1..NumAlarms.)
C1_FiresOnceNotEarly ==
    /\ [](\A a \in Alarms :
            hist[a].delay >= 0 =>
                /\ hist[a].calls <= 1
                /\ ~hist[a].early
                /\ hist[a].calls = 1 => hist[a].calledWith = hist[a].data)
    /\ \A a \in 1..NumAlarms :
          (hist[a].returned /\ hist[a].delay >= 0 /\ hist[a].clr = "none")
            ~> (hist[a].calls = 1 \/ hist[a].clr # "none")

\* an alarm with a positive delay has fired and nobody has cleared it
C1_Witness ==
    \E a \in Alarms :
        /\ hist[a].delay > 0 /\ hist[a].clr = "none"
        /\ hist[a].calls = 1 /\ Terminated(a)

\* C2 as claimed: clearAlarm called strictly before the deadline: f is never
\* invoked, and clearAlarm returns only once the worker has terminated.
C2_CalledBeforeDeadline ==
    \A a \in Alarms :
        hist[a].clr = "before" =>
            /\ hist[a].calls = 0
            /\ hist[a].cleared => Terminated(a)

\* C2 as amended: the cancel request (the flag set under the mutex, the
\* event set) made strictly before the deadline: f is never invoked, and
\* clearAlarm returns only once the worker has terminated.
C2_RequestedBeforeDeadline ==
    \A a \in Alarms :
        hist[a].flag = "before" =>
            /\ hist[a].calls = 0
            /\ hist[a].cleared => Terminated(a)

\* a cancel requested before the deadline has gone through to the end
C2_Witness ==
    \E a \in Alarms :
        /\ hist[a].flag = "before" /\ hist[a].cleared
        /\ hist[a].calls = 0 /\ Terminated(a)

\* C3 as claimed: clearAlarm called after the deadline has elapsed: f is
\* invoked exactly once, and clearAlarm returns after the invocation.
C3_LateClearFiresOnce ==
    \A a \in Alarms :
        (hist[a].clr = "after" /\ hist[a].cleared) =>
            hist[a].calls = 1 /\ ~hist[a].running

\* C3 as amended: clearAlarm called once the deadline has elapsed: f is
\* invoked at most once; exactly once if the worker had taken its decision
\* to fire when the cancel was requested; and clearAlarm returns only once
\* the worker has terminated, so after any invocation has completed.
C3_LateClearAtMostOnce ==
    \A a \in Alarms :
        hist[a].clr \in {"at", "after"} =>
            /\ hist[a].calls <= 1
            /\ hist[a].decidedAtFlag = "fire" => hist[a].calls = 1
            /\ hist[a].cleared => Terminated(a) /\ ~hist[a].running

\* clearAlarm was called after the deadline on an alarm that had fired
C3_Witness ==
    \E a \in Alarms :
        /\ hist[a].clr = "after" /\ hist[a].decidedAtFlag = "fire"
        /\ hist[a].cleared /\ hist[a].calls = 1

\* C4: no resource of a handle (mutex, condition variable, event, thread
\* handle, memory) is destroyed, closed or freed while its worker thread is
\* alive; in particular never while the callback body is executing.
C4_JoinBeforeRelease ==
    \A a \in Alarms :
        /\ ~hist[a].freedAlive
        /\ (\/ alarm[a].mutex = "destroyed"
            \/ alarm[a].cond = "destroyed"
            \/ alarm[a].event = "closed"
            \/ alarm[a].thread = "closed"
            \/ alarm[a].mem = "freed")
           => Terminated(a) /\ ~hist[a].running

\* a handle whose callback ran has been freed
C4_Witness ==
    \E a \in Alarms : alarm[a].mem = "freed" /\ hist[a].calls = 1

\* C5 as claimed: after setAlarm with delay 0, when clearAlarm returns the
\* callback has been invoked exactly once and has completed.
C5_ZeroDelayFiresByClear ==
    \A a \in Alarms :
        (hist[a].delay = 0 /\ hist[a].cleared) =>
            hist[a].calls = 1 /\ ~hist[a].running

\* C5 as amended: after setAlarm with delay 0, when clearAlarm returns the
\* worker has terminated and the callback has been invoked at most once and
\* is not running; it has been invoked exactly once if the worker had not
\* been cancelled before its decision, and zero times only if the cancel
\* was requested before the worker decided.
C5_ZeroDelayAtMostOnce ==
    \A a \in Alarms :
        (hist[a].delay = 0 /\ hist[a].cleared) =>
            /\ hist[a].calls <= 1
            /\ Terminated(a) /\ ~hist[a].running
            /\ hist[a].calls = 0 => hist[a].decidedAtFlag = "none"
            /\ hist[a].decidedAtFlag = "fire" => hist[a].calls = 1

\* a zero-delay alarm fired and was then cleared
C5_Witness ==
    \E a \in Alarms :
        /\ hist[a].delay = 0 /\ hist[a].cleared
        /\ hist[a].calls = 1 /\ hist[a].decidedAtFlag = "fire"

\* the positions of the caller inside clearAlarm
ClearPcs ==
    {"ca_null", "ca_lock", "ca_abort", "ca_signal", "ca_unlock", "ca_join",
     "ca_mutex_destroy", "ca_cond_destroy", "ca_free",
     "caw_SetEvent", "caw_join", "caw_CloseThread", "caw_CloseEvent", "caw_free"}

\* C6: clearAlarm(null) is a no-op: the call and its return change nothing
\* but the caller's position; nothing is locked, signalled, joined,
\* destroyed or freed, and every alarm is left as it was.
C6_ClearNullNoOp ==
    [][/\ (pc = "idle" /\ pc' = "ca_null" /\ arg' = Null)
            => UNCHANGED <<alarm, worker, hist, aborted, diag, failed, now>>
       /\ (pc = "ca_null" /\ arg = Null /\ pc' # pc)
            => /\ pc' = "idle"
               /\ UNCHANGED <<alarm, worker, hist, aborted, diag, failed, now>>]_vars

\* clearAlarm(null) has been called while an alarm is armed
C6_Witness ==
    /\ pc = "ca_null" /\ arg = Null
    /\ \E a \in Alarms : hist[a].returned /\ ~hist[a].cleared /\ ~Terminated(a)

\* C7: createThread(f, d) then joinThread: the thread invokes f exactly
\* once, with the data d that was passed, and joinThread returns only after
\* f(d) has returned.
C7_ThreadRunsWithData ==
    \A t \in Threads :
        /\ thist[t].calls <= 1
        /\ thist[t].calls = 1 => thist[t].calledWith = thist[t].data
        /\ thist[t].joined => thist[t].calls = 1 /\ ~thist[t].running

\* C8: alarms are independent: every alarm that is not cleared fires its
\* own callback exactly once, eventually; and no step of clearAlarm on one
\* alarm changes the handle, the worker or the callback count of another.
C8_AlarmsIndependent ==
    /\ [](\A a \in Alarms :
            /\ hist[a].calls <= 1
            /\ hist[a].calls = 1 => hist[a].calledWith = DataOf(a))
    /\ \A a \in Alarms :
          (hist[a].returned /\ hist[a].clr = "none")
            ~> (hist[a].calls = 1 \/ hist[a].clr # "none")
    /\ [][\A a \in Alarms :
            (arg = a /\ pc \in ClearPcs /\ pc' # pc) =>
                \A b \in Alarms \ {a} :
                    /\ alarm'[b] = alarm[b]
                    /\ worker'[b] = worker[b]
                    /\ hist'[b] = hist[b]]_vars

\* one alarm was cancelled before its deadline and was cleared without
\* firing, while another one has fired
C8_Witness ==
    \E a, b \in Alarms :
        /\ a # b
        /\ hist[a].flag = "before" /\ hist[a].cleared /\ hist[a].calls = 0
        /\ hist[b].calls = 1 /\ hist[b].clr = "none"

\* C9: every failure of an allocation or of an OS primitive is fatal: the
\* process has aborted, with a diagnostic naming the primitive that failed.
C9_FailureIsFatal ==
    failed # "none" => aborted /\ diag = failed

\* C10: the decision is taken once, under the mutex, and is final: a worker
\* whose wait ended by time-out with the cancel flag clear invokes the
\* callback, a worker that left the wait with the flag set does not.
C10_DecisionFinal ==
    \A a \in Alarms :
        Terminated(a) =>
            /\ hist[a].exit = "timeout" => hist[a].calls = 1
            /\ hist[a].exit = "abort" => hist[a].calls = 0
            /\ hist[a].exit \in {"timeout", "abort"}

\* the positions at which a thread reads or writes alarm->abort or
\* alarm->abstime with its next statement, once the handle is shared
WorkerAccessPcs == {"w_while", "w_again", "w_if"}       \* lines 397-398 and 407
ClearAlarmAccessPcs == {"ca_abort"}          \* line 451

\* C11: lock discipline: every read and every write of the cancel flag and
\* of the deadline is made by a thread that holds the alarm's mutex.  Stated
\* for the handles whose worker thread exists: until pthread_create no
\* second thread can reach the fields that setAlarm fills in.
C11_LockDiscipline ==
    \A a \in Alarms :
        worker[a].pc # "none" =>
            /\ worker[a].pc \in WorkerAccessPcs => alarm[a].mutex = "worker"
            /\ (arg = a /\ pc \in ClearAlarmAccessPcs)
                  => alarm[a].mutex = "caller"

\* C12: the wait loop tolerates spurious wakeups: a wait that returns
\* without a time-out while the flag is clear is followed by another wait
\* on the same deadline, with no invocation; the worker leaves the loop (the
\* single wait, on Windows) only by a time-out or with the cancel flag (the
\* event) set.
C12_SpuriousWakeups ==
    [][\A a \in Alarms :
        /\ (worker[a].pc = "w_wait" /\ worker'[a].pc # "w_wait") =>
              \/ worker'[a].pc = "w_unlock" /\ worker'[a].r = "ETIMEDOUT"
              \/ worker'[a].pc = "w_again" /\ hist'[a].calls = hist[a].calls
        /\ (worker[a].pc = "w_again" /\ worker'[a].pc # "w_again") =>
              IF alarm[a].abort
              THEN worker'[a].pc = "w_unlock"
              ELSE /\ worker'[a].pc = "w_wait"
                   /\ alarm'[a].abstime = alarm[a].abstime
                   /\ hist'[a].calls = hist[a].calls
        /\ (worker[a].pc # "w_unlock" /\ worker'[a].pc = "w_unlock") =>
              \/ alarm[a].abort
              \/ worker'[a].r = "ETIMEDOUT" /\ Reached(alarm[a].abstime)
        /\ (worker[a].pc = "ww_wait" /\ worker'[a].pc # "ww_wait") =>
              \/ alarm[a].event = "set"
              \/ /\ worker'[a].r = "WAIT_TIMEOUT"
                 /\ DWordGE(ElapsedMs(worker[a].since), worker[a].millis)]_vars

\* a wait has returned before the deadline with the flag clear
C12_Witness ==
    \E a \in Alarms :
        /\ worker[a].pc = "w_again" /\ ~alarm[a].abort
        /\ ~Reached(alarm[a].abstime)

\* the first phase of clearAlarm: lock, set the flag, signal, unlock
ClearAlarmFirstPhase ==
    clearAlarm_lock \/ clearAlarm_abort \/ clearAlarm_signal \/ clearAlarm_unlock

\* C13: the worker does not hold the mutex while the callback executes (it
\* has released it before the callback or its exit); a clearAlarm that is
\* in its lock / set-flag / signal / unlock phase while the callback runs
\* can take its next step at once, and one that has reached the join is
\* blocked there until the callback has returned.
C13_NoLockAcrossCallback ==
    \A a \in Alarms :
        /\ worker[a].pc \in {"w_if", "w_callback", "done"}
              => alarm[a].mutex # "worker"
        /\ hist[a].running => alarm[a].mutex # "worker"
        /\ (hist[a].running /\ arg = a
                /\ pc \in {"ca_lock", "ca_abort", "ca_signal", "ca_unlock"})
              => ENABLED ClearAlarmFirstPhase
        /\ (hist[a].running /\ arg = a /\ pc = "ca_join")
              => ~ENABLED clearAlarm_join

\* clearAlarm requested the cancel after the callback had started and is
\* at the join while the callback is still running
C13_Witness ==
    \E a \in Alarms :
        /\ hist[a].running /\ arg = a /\ pc = "ca_join"
        /\ hist[a].decidedAtFlag = "fire"

\* C14: no missed wakeup: after a call of clearAlarm on a live handle the
\* worker terminates, wherever it was when the flag (the event) was set and
\* whether or not the deadline is ever reached, and the call returns.
\* (The caller of CancelFairSpec creates the handles 1..NumAlarms.)
C14_NoMissedWakeup ==
    \A a \in 1..NumAlarms :
        (hist[a].clr # "none") ~> (Terminated(a) /\ hist[a].cleared)

\* clearAlarm has returned before the deadline, having woken the worker
\* from its wait
C14_Witness ==
    \E a \in Alarms :
        /\ hist[a].cleared /\ now < hist[a].deadline
        /\ hist[a].exit = "abort" /\ worker[a].r # "ETIMEDOUT"

\* the lifecycle state of alarm a
Life(a) ==
    IF worker[a].pc = "none" THEN "None"
    ELSE IF alarm[a].mem = "freed" THEN "Disposed"
    ELSE IF hist[a].running THEN "Firing"
    ELSE IF hist[a].calls > 0 THEN "Fired"
    ELSE IF hist[a].decided = "skip" THEN "Canceled"
    ELSE "Armed"

LifeSteps ==
    {<<"None", "Armed">>, <<"Armed", "Firing">>, <<"Firing", "Fired">>,
     <<"Armed", "Canceled">>, <<"Fired", "Disposed">>, <<"Canceled", "Disposed">>}

\* the positions of clearAlarm at which a resource of the handle is released
TeardownPcs ==
    {"ca_mutex_destroy", "ca_cond_destroy", "ca_free",
     "caw_CloseThread", "caw_CloseEvent", "caw_free"}

\* C15: the lifecycle of an alarm takes only the steps Armed -> Firing ->
\* Fired, Armed -> Canceled, Fired -> Disposed and Canceled -> Disposed; it
\* is disposed of only by clearAlarm, whose teardown runs only on a Fired or
\* Canceled alarm; and nothing happens to a Disposed handle.
C15_Lifecycle ==
    [][\A a \in Alarms :
        /\ Life(a)' # Life(a) => <<Life(a), Life(a)'>> \in LifeSteps
        /\ (Life(a) # "Disposed" /\ Life(a)' = "Disposed")
              => arg = a /\ pc \in {"ca_free", "caw_free"}
        /\ (arg = a /\ pc \in TeardownPcs) => Life(a) \in {"Fired", "Canceled"}
        /\ Life(a) = "Disposed"
              => /\ alarm'[a] = alarm[a] /\ worker'[a] = worker[a]
                 /\ hist'[a] = hist[a] /\ arg' # a]_vars

\* a cancelled alarm has been disposed of and the program has gone on
C15_Witness ==
    \E a \in Alarms :
        /\ Life(a) = "Disposed" /\ hist[a].decided = "skip"
        /\ now > hist[a].deadline

\* the bound of the worker's timed wait has been reached
WaitExpired(a) ==
    IF backend = "POSIX" THEN Reached(alarm[a].abstime)
    ELSE DWordGE(ElapsedMs(worker[a].since), worker[a].millis)

\* C16: the callback is never invoked before the deadline: an invocation
\* implies that the worker's timed wait has returned a time-out, that the
\* bound of that wait has been reached and that the clock is not before the
\* deadline, whatever cancellation and wakeups there have been.
C16_NeverBeforeDeadline ==
    \A a \in Alarms :
        hist[a].calls > 0 =>
            /\ worker[a].r \in {"ETIMEDOUT", "WAIT_TIMEOUT"}
            /\ WaitExpired(a)
            /\ now >= hist[a].deadline

\* an alarm with a positive delay has fired although its cancel has been
\* requested
C16_Witness ==
    \E a \in Alarms :
        /\ hist[a].calls > 0 /\ hist[a].delay > 0
        /\ hist[a].flag # "none"

\* the result of the worker's timed wait is a time-out
TimedOut(a) == worker[a].r \in {"ETIMEDOUT", "WAIT_TIMEOUT"}

\* C17: the two backends decide alike on one ordering of events: as the
\* Windows worker fires exactly when its wait returned a time-out, whatever
\* the cancel does afterwards, so does the POSIX worker; and in both
\* clearAlarm returns only after the worker, callback included, has ended.
C17_BackendsAgree ==
    \A a \in Alarms :
        /\ Terminated(a) => ((hist[a].decided = "fire") <=> TimedOut(a))
        /\ hist[a].cleared => Terminated(a) /\ ~hist[a].running

\* the same statement of the Windows backend alone
WindowsDecidesOnWaitResult ==
    backend = "WIN32" => C17_BackendsAgree

\* C18: for a negative or zero delay the bound of the worker's wait is
\* already past when the wait is entered, in both backends, so that the wait
\* times out at once (on Windows: the millisecond count is not a wrapped or
\* infinite one).
C18_NonPositiveDelayFiresAtOnce ==
    \A a \in Alarms :
        (hist[a].delay <= 0 /\ worker[a].pc \in {"w_wait", "ww_wait"})
            => WaitExpired(a)

\* C19: when clearAlarm destroys the mutex it is unlocked, and when it
\* destroys the mutex or the condition variable the worker has terminated,
\* so that no thread waits or will wait on them; a worker that has
\* terminated has released the mutex, whichever way it left.
C19_DestroyUnlocked ==
    [][\A a \in Alarms :
        /\ Terminated(a) => alarm[a].mutex # "worker"
        /\ (alarm[a].mutex # "destroyed" /\ alarm'[a].mutex = "destroyed")
              => alarm[a].mutex = "free" /\ Terminated(a)
        /\ (alarm[a].cond # "destroyed" /\ alarm'[a].cond = "destroyed")
              => /\ Terminated(a)
                 /\ alarm[a].mutex \notin {"worker", "caller"}]_vars

\* the mutex and the condition variable of a worker that was woken by the
\* cancel have been destroyed
C19_Witness ==
    \E a \in Alarms :
        /\ alarm[a].mutex = "destroyed" /\ alarm[a].cond = "destroyed"
        /\ hist[a].exit = "abort"

\* C20: the cancel flag is monotonic and has one writer: it is false when
\* the worker thread is created; from then on it changes only from false to
\* true, and only by clearAlarm's assignment for that handle; the worker
\* never writes it.  Likewise the Windows event is set only by clearAlarm
\* and never reset.
C20_FlagMonotonic ==
    [][\A a \in Alarms :
        /\ (worker[a].pc = "none" /\ worker'[a].pc # "none")
              => ~alarm'[a].abort /\ alarm'[a].event # "set"
        /\ (worker[a].pc # "none" /\ alarm'[a].abort # alarm[a].abort)
              => alarm'[a].abort /\ arg = a /\ pc = "ca_abort"
        /\ (alarm[a].event # "set" /\ alarm'[a].event = "set")
              => arg = a /\ pc = "caw_SetEvent"
        /\ (alarm[a].event = "set" /\ alarm'[a].event # "set")
              => alarm'[a].event = "closed" /\ Terminated(a)]_vars

\* the flag of a handle whose worker is alive is set
C20_Witness ==
    \E a \in Alarms :
        /\ alarm[a].abort /\ worker[a].pc # "none" /\ ~Terminated(a)

\* ====================================================== growable lists ==
MaxLen      == 2     \* the longest list the model fills with items
MaxItemSize == 4     \* the largest sizeof of an item
MaxMinSize  == 4     \* the largest ordinary minSize, in bytes

\* maxInt and minInt: int is 32 bits wide
maxInt == 2147483647
minInt == -maxInt - 1

\* max(a, b)
max(a, b) == IF a >= b THEN a ELSE b

\* int + int leaves the range of int: undefined behaviour
AddOverflows(a, b) ==
    \/ b > 0 /\ a > maxInt - b
    \/ b < 0 /\ a < minInt - b

\* int + int as two's-complement hardware computes it
WrapAdd(a, b) ==
    IF b > 0 /\ a > maxInt - b THEN ((a + minInt) + b) + minInt
    ELSE IF b < 0 /\ a < minInt - b THEN ((a - minInt) + b) - minInt
    ELSE a + b

\* int / int for a positive divisor: C truncates toward zero
IntQuot(num, den) ==
    IF num >= 0 THEN num \div den ELSE (num + (den - 1)) \div den

\* int * int for a positive n leaves the range of int
MulOverflows(a, n) == a > IntQuot(maxInt, n) \/ a < IntQuot(minInt, n)

\* int * int as two's-complement hardware computes it, for n >= 0
RECURSIVE WrapMul(_, _)
WrapMul(a, n) == IF n = 0 THEN 0 ELSE WrapAdd(WrapMul(a, n - 1), a)

\* the arguments the model passes
ItemSizes == 1..MaxItemSize
HugeLens  == {maxInt \div 4 + 2, maxInt \div 2 + 1, maxInt \div 2 + 2, maxInt}
MinLens   == (0..(MaxLen + 2)) \cup HugeLens
MinSizes  == ((-1)..MaxMinSize) \cup {maxInt}

\* the lists a caller can hold: the empty list, lists grown before, and
\* fixed-length lists (a buffer of the caller with maxLen 0)
Address == 1
Moved(v) == IF v = Address THEN Address + 1 ELSE Address
Lists ==
    {emptyList}
    \cup {l \in [v : {Address}, len : 0..MaxLen, maxLen : 0..(MaxLen + 2)] :
            l.maxLen = 0 \/ l.maxLen >= l.len}
IsFixed(l) == l.maxLen = 0 /\ l.v # Null

\* the block behind a list of items of s bytes; item i holds the value i
BlockOf(l, s) ==
    IF l.v = Null THEN NoHeap
    ELSE [addr |-> l.v,
          size |-> (IF l.maxLen = 0 THEN l.len ELSE l.maxLen) * s,
          items |-> [i \in 1..l.len |-> i]]

ListInit ==
    /\ InitWith("reliable", NumAlarms)
    /\ \E l \in Lists, s \in ItemSizes :
        /\ list = l
        /\ heap = BlockOf(l, s)
        /\ frame = [NoFrame EXCEPT !.itemSize = s]

\* what a list step leaves alone
ListFrame ==
    /\ UNCHANGED <<backend, handles, env, now, pc, arg, diag, failed>>
    /\ UNCHANGED <<alarm, worker, hist, closure, thread, thist>>

\* xRaise(msg): err = &_static_err; goto cleanup
xRaise(msg) ==
    frame' = [frame EXCEPT !.err = msg, !.pc = "l_cleanup"]

\* listEnsureMaxLen(list, itemSize, minLen, minSize) is called
listEnsureMaxLen_call(minLen, minSize) ==
    /\ Running /\ frame.pc \in {"idle", "l_returned"}
    /\ frame' = [frame EXCEPT !.pc = "l_assert",
                              !.minLen = minLen,
                              !.minSize = minSize,
                              !.newMax = 0,
                              !.size = 0,
                              !.err = "OK",
                              !.old = list,
                              !.kept = heap.items]
    /\ UNCHANGED <<list, heap, aborted>>
    /\ ListFrame

\* assert(minLen >= list->len); assert(minLen > 0)
listEnsureMaxLen_assert ==
    /\ Running /\ frame.pc = "l_assert"
    /\ IF frame.minLen >= list.len /\ frame.minLen > 0
       THEN /\ frame' = [frame EXCEPT !.pc = "l_fixed"]
            /\ UNCHANGED aborted
       ELSE /\ aborted' = TRUE
            /\ UNCHANGED frame
    /\ UNCHANGED <<list, heap>>
    /\ ListFrame

\* if ((list->maxLen == 0) && (list->v != null)) xRaise(...)
listEnsureMaxLen_fixed ==
    /\ Running /\ frame.pc = "l_fixed"
    /\ IF list.maxLen = 0 /\ list.v # Null
       THEN xRaise("Invalid operation on fixed-length list")
       ELSE frame' = [frame EXCEPT !.pc = "l_newMax"]
    /\ UNCHANGED <<list, heap, aborted>>
    /\ ListFrame

\* an int computation overflows: the build either traps (the process is
\* gone) or carries on with the wrapped value
Trap ==
    /\ aborted' = TRUE
    /\ UNCHANGED frame

\* int newMax = max(1, (minSize + itemSize - 1) / itemSize)
listEnsureMaxLen_newMax ==
    /\ Running /\ frame.pc = "l_newMax"
    /\ LET over == AddOverflows(frame.minSize, frame.itemSize - 1)
           sum  == WrapAdd(frame.minSize, frame.itemSize - 1)
       IN  \/ /\ frame' = [frame EXCEPT
                    !.newMax = max(1, IntQuot(sum, frame.itemSize)),
                    !.overflow = frame.overflow \/ over,
                    !.pc = "l_while"]
              /\ UNCHANGED aborted
           \/ over /\ Trap
    /\ UNCHANGED <<list, heap>>
    /\ ListFrame

\* while (newMax < minLen) newMax *= 2
listEnsureMaxLen_while ==
    /\ Running /\ frame.pc = "l_while"
    /\ IF frame.newMax < frame.minLen
       THEN LET over == AddOverflows(frame.newMax, frame.newMax)
            IN  \/ /\ frame' = [frame EXCEPT
                         !.newMax = WrapAdd(frame.newMax, frame.newMax),
                         !.overflow = frame.overflow \/ over]
                   /\ UNCHANGED aborted
                \/ over /\ Trap
       ELSE /\ frame' = [frame EXCEPT !.pc = "l_if"]
            /\ UNCHANGED aborted
    /\ UNCHANGED <<list, heap>>
    /\ ListFrame

\* if (newMax != list->maxLen)
listEnsureMaxLen_if ==
    /\ Running /\ frame.pc = "l_if"
    /\ frame' = [frame EXCEPT
           !.pc = IF frame.newMax # list.maxLen THEN "l_size"
                  ELSE "l_cleanup"]
    /\ UNCHANGED <<list, heap, aborted>>
    /\ ListFrame

\* realloc(ptr, size) fails: null, and the old block is untouched
ReallocFails ==
    /\ xRaise("Out of memory")
    /\ UNCHANGED <<list, heap>>

\* realloc(ptr, size) succeeds: a block of size bytes, at the old address or
\* at another one, that holds the old contents up to the smaller of the two
\* sizes; list->v = v; list->maxLen = newMax
ReallocTakes(size) ==
    \E v \in {Address, Moved(list.v)} :
        /\ heap' = [addr |-> v,
                    size |-> size,
                    items |-> SubSeq(heap.items, 1,
                        IF size \div frame.itemSize < Len(heap.items)
                        THEN size \div frame.itemSize
                        ELSE Len(heap.items))]
        /\ list' = [list EXCEPT !.v = v, !.maxLen = frame.newMax]
        /\ frame' = [frame EXCEPT !.pc = "l_cleanup"]

\* realloc(ptr, 0) of the C libraries that free ptr and return null
ReallocFrees ==
    /\ heap' = NoHeap
    /\ xRaise("Out of memory")
    /\ UNCHANGED list

\* newMax * itemSize, the argument of realloc, is computed in int
listEnsureMaxLen_size ==
    /\ Running /\ frame.pc = "l_size"
    /\ LET over == MulOverflows(frame.newMax, frame.itemSize)
       IN  \/ /\ frame' = [frame EXCEPT
                    !.size = WrapMul(frame.newMax, frame.itemSize),
                    !.overflow = frame.overflow \/ over,
                    !.pc = "l_realloc"]
              /\ UNCHANGED aborted
           \/ over /\ Trap
    /\ UNCHANGED <<list, heap>>
    /\ ListFrame

\* void *v = realloc(list->v, newMax * itemSize);
\* if (v == null) xRaise("Out of memory");
\* list->v = v; list->maxLen = newMax
\* (a negative int converts to a size_t no allocator can serve)
listEnsureMaxLen_realloc ==
    /\ Running /\ frame.pc = "l_realloc"
    /\ \/ ReallocFails
       \/ frame.size >= 0 /\ ReallocTakes(frame.size)
       \/ frame.size = 0 /\ list.v # Null /\ ReallocFrees
    /\ UNCHANGED aborted
    /\ ListFrame

\* cleanup: return err
listEnsureMaxLen_return ==
    /\ Running /\ frame.pc = "l_cleanup"
    /\ frame' = [frame EXCEPT !.pc = "l_returned"]
    /\ UNCHANGED <<list, heap, aborted>>
    /\ ListFrame

ListNext ==
    \/ \E minLen \in MinLens, minSize \in MinSizes :
         listEnsureMaxLen_call(minLen, minSize)
    \/ listEnsureMaxLen_assert
    \/ listEnsureMaxLen_fixed
    \/ listEnsureMaxLen_newMax
    \/ listEnsureMaxLen_while
    \/ listEnsureMaxLen_if
    \/ listEnsureMaxLen_size
    \/ listEnsureMaxLen_realloc
    \/ listEnsureMaxLen_return

ListSpec == ListInit /\ [][ListNext]_vars

\* what the call promises once it has returned: on success the capacity is
\* the smallest max(1, ceil(minSize/itemSize)) * 2^k that is >= minLen and
\* len and the first len items are as they were; otherwise the list was
\* fixed-length or realloc failed, and v, len and maxLen are as they were
EnsureMaxLenPost ==
    LET base == max(1, CeilDiv(frame.minSize, frame.itemSize))
    IN  IF frame.err = "OK"
        THEN /\ ~IsFixed(frame.old)
             /\ list.len <= frame.minLen /\ frame.minLen <= list.maxLen
             /\ \E k \in 0..30 :
                 /\ base <= maxInt \div (2^k)
                 /\ list.maxLen = base * 2^k
                 /\ k = 0 \/ base * 2^(k - 1) < frame.minLen
             /\ list.len = frame.old.len
             /\ heap.addr = list.v
             /\ Len(heap.items) >= list.len
             /\ SubSeq(heap.items, 1, list.len) = frame.kept
        ELSE /\ list = frame.old
             /\ IsFixed(frame.old) \/ frame.err = "Out of memory"

\* C21: a call of listEnsureMaxLen with minLen >= len and minLen > 0 that
\* succeeds leaves len <= minLen <= maxLen with maxLen the smallest
\* max(1, ceil(minSize/itemSize)) * 2^k that is >= minLen, and len and the
\* first len items unchanged; on a fixed-length list or when realloc fails
\* it returns an error and leaves v, len and maxLen unchanged
C21_EnsureMaxLen ==
    frame.pc = "l_returned" => EnsureMaxLenPost

\* the same promise, as long as no int computation has overflowed
EnsureMaxLenWithinInt ==
    frame.pc = "l_returned" /\ ~frame.overflow => EnsureMaxLenPost

====
